---- MODULE Spec2Model ----
(***************************************************************************)
(* Model of src/app.py: the Semantix room / round / turn state machine.    *)
(*                                                                         *)
(* One room is modelled (the rooms of the games map do not interact).      *)
(* A handler is an operator from the room's state and the request to the   *)
(* state after it and the JSON response; the action of a handler applies   *)
(* it to the room for every request of the input sets.                     *)
(* Time is counted in ticks of 1/Resolution second and is read relative to *)
(* the present instant: time.time() is 0, and when d ticks pass every      *)
(* stored timestamp moves d ticks into the past.  The code only ever uses  *)
(* the differences time.time() - start (app.py:135, 149), and only through *)
(* max(0, limit - elapsed), so a timestamp older than its budget is kept   *)
(* at exactly the budget.  Every call of time.time() inside one handler    *)
(* reads the same instant.  Words are sequences of characters so that      *)
(* normalize_text is computed, not assumed.  The fields created_at and     *)
(* last_timeout_player are written and never read; they are left out.      *)
(***************************************************************************)
EXTENDS Integers, Sequences, FiniteSets, TLC

VARIABLES
    games,      \* app.py:48   code -> game state (dict)
    ticks,      \* number of clock advances so far (bounds the exploration)
    rounds,     \* number of new_round calls so far (bounds the exploration)
    pc,         \* per worker thread: position inside its handler
    local       \* per worker thread: the handler's local variables

vars == <<games, ticks, rounds, pc, local>>

-----------------------------------------------------------------------------
(* Game parameters, app.py:25-32 *)
ROUND_TIME_LIMIT == 300
TURN_TIME_LIMIT == 15
REDUCED_TURN_TIME == 10
TIMEOUT_THRESHOLD == 2
PENALTY_THRESHOLD == 1000
TIMEOUT_PENALTY == -1
REGRESSION_PENALTY == -1
BEST_WORD_BONUS == 1
MAX_PLAYERS == 4
TOP_AVG_COUNT == 10
TOP_WORDS_COUNT == 20

(* Bounds of the exploration *)
Resolution == 2
MaxTicks == 1
MaxRounds == 1
MaxTurnTicks == 2

(* Python's None and a present value, for fields that may hold either *)
None == <<>>
Some(v) == <<v>>

Secs(s) == s * Resolution

(* time.time(), app.py:135, 149, 173, 205, 260, 297, 415, 500 *)
time_now == 0

(* The clock advances by one tick, to one tick before the turn budget, to  *)
(* one tick before the round budget, or by the whole round budget.         *)
Deltas ==
    { 1,
      Secs(TURN_TIME_LIMIT) - 1,
      Secs(ROUND_TIME_LIMIT) - 1,
      Secs(ROUND_TIME_LIMIT) }

-----------------------------------------------------------------------------
(* Words and the data set (data/game_data.json, read at app.py:38-42) *)

Ocean == <<"o", "c", "e", "a", "n">>
Sea == <<"s", "e", "a">>
Water == <<"w", "a", "t", "e", "r">>
Rock == <<"r", "o", "c", "k">>
Lune == <<"l", "u", "n", "e">>

TARGETS == {Ocean, Lune}

RANKS == (Ocean :> (Ocean :> 1 @@ Sea :> 2 @@ Water :> 50 @@ Rock :> 9000))

(* Raw words a client may send *)
RawWords ==
    { <<"s", "e", "a">>,
      <<" ", "S", "E_acute", "a", " ">>,
      <<"o", "c", "e", "a", "n">>,
      <<" ">>,
      <<"z">> }

Names == {"Joueur"}
Codes == {"ABCD"}
ReqCodes == {"abcd"}
RoomCode == "ABCD"

upper(c) == CASE c = "abcd" -> "ABCD" [] OTHER -> c

-----------------------------------------------------------------------------
(* normalize_text, app.py:53-58 *)

lower_char(c) ==
    CASE c = "S" -> "s"
      [] c = "R" -> "r"
      [] c = "E_acute" -> "e_acute"
      [] OTHER -> c

IsSpace(c) == c = " "

RECURSIVE lstrip(_)
lstrip(s) == IF s # <<>> /\ IsSpace(Head(s)) THEN lstrip(Tail(s)) ELSE s

RECURSIVE rstrip(_)
rstrip(s) ==
    IF s # <<>> /\ IsSpace(s[Len(s)]) THEN rstrip(SubSeq(s, 1, Len(s) - 1)) ELSE s

strip(s) == rstrip(lstrip(s))

lower(s) == [i \in 1..Len(s) |-> lower_char(s[i])]

nfd_char(c) == IF c = "e_acute" THEN <<"e", "combining_acute">> ELSE <<c>>

RECURSIVE nfd(_)
nfd(s) == IF s = <<>> THEN <<>> ELSE nfd_char(Head(s)) \o nfd(Tail(s))

IsMn(c) == c = "combining_acute"

normalize_text(text) == SelectSeq(nfd(strip(lower(text))), LAMBDA c : ~IsMn(c))

-----------------------------------------------------------------------------
(* Scoring, app.py:64-131 *)

RECURSIVE SeqSum(_)
SeqSum(s) == IF s = <<>> THEN 0 ELSE Head(s) + SeqSum(Tail(s))

RECURSIVE InsertSorted(_, _)
InsertSorted(x, s) ==
    IF s = <<>> THEN <<x>>
    ELSE IF Head(s) <= x THEN <<Head(s)>> \o InsertSorted(x, Tail(s))
    ELSE <<x>> \o s

RECURSIVE SortedInts(_)
SortedInts(s) ==
    IF s = <<>> THEN <<>>
    ELSE InsertSorted(s[Len(s)], SortedInts(SubSeq(s, 1, Len(s) - 1)))

Min2(a, b) == IF a <= b THEN a ELSE b
Max2(a, b) == IF a >= b THEN a ELSE b

(* The mean is kept as the exact fraction sum / len. *)
get_avg_top_10(game) ==
    IF game.guesses = <<>> THEN None
    ELSE LET all_ranks == SortedInts([i \in 1..Len(game.guesses) |-> game.guesses[i].rank])
             top_ranks == SubSeq(all_ranks, 1, Min2(TOP_AVG_COUNT, Len(all_ranks)))
         IN  Some([sum |-> SeqSum(top_ranks), len |-> Len(top_ranks)])

WorseThan(rank, avg_top_10) ==
    IF avg_top_10 # None /\ avg_top_10[1].sum # 0
    THEN rank * avg_top_10[1].len > avg_top_10[1].sum
    ELSE rank > PENALTY_THRESHOLD

(* Mutant: the tier value, never the regression penalty *)
calculate_points_TierOnly(rank, avg_top_10) ==
    IF rank = 1 THEN 100
    ELSE IF rank <= 10 THEN 15
    ELSE IF rank <= 50 THEN 10
    ELSE IF rank <= 100 THEN 5
    ELSE IF rank <= 500 THEN 2
    ELSE 0

calculate_points(rank, avg_top_10) ==
    IF WorseThan(rank, avg_top_10) THEN REGRESSION_PENALTY
    ELSE IF rank = 1 THEN 100
    ELSE IF rank <= 10 THEN 15
    ELSE IF rank <= 50 THEN 10
    ELSE IF rank <= 100 THEN 5
    ELSE IF rank <= 500 THEN 2
    ELSE 0

get_indicator(rank) ==
    IF rank = 1 THEN "party"
    ELSE IF rank <= 10 THEN "fire"
    ELSE IF rank <= 50 THEN "thermometer"
    ELSE IF rank <= 100 THEN "sun"
    ELSE IF rank <= 500 THEN "sun_cloud"
    ELSE IF rank <= 1000 THEN "snow"
    ELSE "skull"

RECURSIVE SortedItems(_)
SortedItems(S) ==
    IF S = {} THEN <<>>
    ELSE LET m == CHOOSE x \in S : \A y \in S : x.rank <= y.rank
         IN  <<m>> \o SortedItems(S \ {m})

get_top_20_words(secret_word) ==
    IF secret_word \notin DOMAIN RANKS THEN <<>>
    ELSE LET ranks_for_secret == RANKS[secret_word]
             sorted_words == SortedItems({[word |-> w, rank |-> ranks_for_secret[w]] :
                                            w \in DOMAIN ranks_for_secret})
         IN  SubSeq(sorted_words, 2, Min2(TOP_WORDS_COUNT + 1, Len(sorted_words)))

RECURSIVE InsertByRank(_, _)
InsertByRank(g, s) ==
    IF s = <<>> THEN <<g>>
    ELSE IF Head(s).rank <= g.rank THEN <<Head(s)>> \o InsertByRank(g, Tail(s))
    ELSE <<g>> \o s

RECURSIVE SortedByRank(_)
SortedByRank(s) ==
    IF s = <<>> THEN <<>>
    ELSE InsertByRank(s[Len(s)], SortedByRank(SubSeq(s, 1, Len(s) - 1)))

-----------------------------------------------------------------------------
(* Timers, app.py:133-183.  t is the value of time.time(). *)

(* int(max(0, limit - elapsed)), in whole seconds *)
RemainingSeconds(limit, elapsed) == Max2(0, Secs(limit) - elapsed) \div Resolution

get_remaining_round_time(game, t) ==
    RemainingSeconds(ROUND_TIME_LIMIT, t - game.round_start_time)

(* Mutant: the budget shrinks after the first timeout *)
get_current_turn_limit_AfterOne(game) ==
    IF game.consecutive_timeouts[game.current_player] >= 1
    THEN REDUCED_TURN_TIME
    ELSE TURN_TIME_LIMIT

get_current_turn_limit(game) ==
    IF game.consecutive_timeouts[game.current_player] >= TIMEOUT_THRESHOLD
    THEN REDUCED_TURN_TIME
    ELSE TURN_TIME_LIMIT

get_remaining_turn_time(game, t) ==
    RemainingSeconds(get_current_turn_limit(game), t - game.turn_start_time)

(* Mutant: the turn passes over one player *)
NextPlayer_SkipOne(game, p) == ((p + 1) % Len(game.players)) + 1

NextPlayer(game, p) == (p % Len(game.players)) + 1

TurnTimeoutDue(game, t) ==
    /\ get_remaining_turn_time(game, t) <= 0
    /\ ~game.found
    /\ ~game.advancing_turn

(* Mutant: the penalty and the counter go to the player the turn passes to *)
AdvanceTurn_PenaliseNext(game, t) ==
    LET next == NextPlayer(game, game.current_player)
    IN  [game EXCEPT
            !.scores[next] = @ + TIMEOUT_PENALTY,
            !.consecutive_timeouts[next] = @ + 1,
            !.current_player = next,
            !.turn_start_time = t,
            !.turn_skipped = TRUE,
            !.advancing_turn = FALSE]

AdvanceTurn(game, t) ==
    LET current == game.current_player
    IN  [game EXCEPT
            !.scores[current] = @ + TIMEOUT_PENALTY,
            !.consecutive_timeouts[current] = @ + 1,
            !.current_player = NextPlayer(game, current),
            !.turn_start_time = t,
            !.turn_skipped = TRUE,
            !.advancing_turn = FALSE]

(* Returns the game after the call and the call's return value. *)
check_and_advance_turn(game, t) ==
    IF TurnTimeoutDue(game, t)
    THEN [game |-> AdvanceTurn(game, t), skipped |-> TRUE]
    ELSE [game |-> game, skipped |-> FALSE]

check_round_timeout(game, t) ==
    get_remaining_round_time(game, t) <= 0 /\ ~game.found

-----------------------------------------------------------------------------
(* Requests and responses.  A request for a code that is not in games is   *)
(* answered [success |-> FALSE, error |-> ...] by every handler and        *)
(* changes nothing (app.py:240, 293, 309, 328, 433, 451, 496).             *)

(* The player ids a client may send: the roster and one id outside it *)
PlayerIds(game) == 1..(Len(game.players) + 1)
Threads == {1, 2}

Error(msg) == [success |-> FALSE, error |-> msg]

Idle == [th \in Threads |-> "idle"]

(* The local variables of a handler in progress *)
NoLocal ==
    [ op |-> "none", player_id |-> 0, word |-> <<>>, round_timeout |-> FALSE,
      skipped |-> FALSE, current |-> 0, tmp |-> 0, guess_data |-> None ]
NoLocals == [th \in Threads |-> NoLocal]

-----------------------------------------------------------------------------
(* create_game, app.py:192-231 *)

NewGame(secret_word, player_name, t) ==
    [ secret_word |-> secret_word,
      players |-> <<player_name>>,
      scores |-> <<0>>,
      guesses |-> <<>>,
      current_player |-> 1,
      found |-> FALSE,
      winner |-> None,
      round_start_time |-> t,
      turn_start_time |-> t,
      turn_skipped |-> FALSE,
      round_timeout |-> FALSE,
      started |-> FALSE,
      consecutive_timeouts |-> <<0>>,
      advancing_turn |-> FALSE ]

create_game(code, secret_word, player_name, t) ==
    [game |-> NewGame(secret_word, player_name, t),
     resp |-> [success |-> TRUE, code |-> code, player_id |-> 1,
               round_time_limit |-> ROUND_TIME_LIMIT,
               turn_time_limit |-> TURN_TIME_LIMIT]]

CreateGame ==
    \E code \in Codes, secret_word \in TARGETS, player_name \in Names :
        /\ code \notin DOMAIN games
        /\ games' = (code :> create_game(code, secret_word, player_name, time_now).game) @@ games
        /\ UNCHANGED <<ticks, rounds, pc, local>>

-----------------------------------------------------------------------------
(* join_game, app.py:233-285 *)

(* Mutant: the room is full only above the cap *)
RoomIsFull_AboveCap(game) == Len(game.players) > MAX_PLAYERS

RoomIsFull(game) == Len(game.players) >= MAX_PLAYERS

(* Mutant: the restart keeps the scores *)
RestartForFairness_KeepScores(game, secret_word, t) ==
    [game EXCEPT
        !.secret_word = secret_word,
        !.guesses = <<>>,
        !.current_player = 1,
        !.found = FALSE,
        !.winner = None,
        !.round_start_time = t,
        !.turn_start_time = t,
        !.round_timeout = FALSE,
        !.turn_skipped = FALSE,
        !.consecutive_timeouts = [pid \in DOMAIN game.players |-> 0]]

(* The complete reset of the round when the game has already started *)
RestartForFairness(game, secret_word, t) ==
    [game EXCEPT
        !.secret_word = secret_word,
        !.guesses = <<>>,
        !.current_player = 1,
        !.found = FALSE,
        !.winner = None,
        !.round_start_time = t,
        !.turn_start_time = t,
        !.round_timeout = FALSE,
        !.turn_skipped = FALSE,
        !.scores = [pid \in DOMAIN game.players |-> 0],
        !.consecutive_timeouts = [pid \in DOMAIN game.players |-> 0]]

AddPlayer(game, player_name) ==
    [game EXCEPT
        !.players = Append(@, player_name),
        !.scores = Append(@, 0),
        !.consecutive_timeouts = Append(@, 0)]

join_game(game, code, player_name, secret_word, t) ==
    IF game.found THEN [game |-> game, resp |-> Error("Cette partie est terminee")]
    ELSE IF RoomIsFull(game)
    THEN [game |-> game, resp |-> Error("Partie complete (4 joueurs max)")]
    ELSE LET player_id == Len(game.players) + 1
             g1 == AddPlayer(game, player_name)
             g2 == IF g1.started THEN RestartForFairness(g1, secret_word, t) ELSE g1
         IN  [game |-> g2,
              resp |-> [success |-> TRUE, code |-> code, player_id |-> player_id,
                        players |-> g2.players,
                        round_time_limit |-> ROUND_TIME_LIMIT,
                        turn_time_limit |-> TURN_TIME_LIMIT,
                        game_restarted |-> g1.started]]

(* The JSON body of a join request.  The handler reads the keys code and  *)
(* name (app.py:236-238); any other key a client sends, such as           *)
(* existingPlayerId, is never read.                                       *)
JoinRequests ==
    [ code : ReqCodes, name : Names,
      existingPlayerId : {None} \cup {Some(p) : p \in 1..MAX_PLAYERS} ]

join_request(game, data, secret_word, t) ==
    join_game(game, upper(data.code), data.name, secret_word, t)

JoinGame ==
    \E data \in JoinRequests, secret_word \in TARGETS :
        LET code == upper(data.code) IN
        /\ IF code \notin DOMAIN games
           THEN UNCHANGED games
           ELSE games' = [games EXCEPT
                    ![code] = join_request(@, data, secret_word, time_now).game]
        /\ UNCHANGED <<ticks, rounds, pc, local>>

-----------------------------------------------------------------------------
(* start_game, app.py:287-302 *)

start_game(game, t) ==
    [game |-> [game EXCEPT !.round_start_time = t, !.turn_start_time = t,
                            !.started = TRUE],
     resp |-> [success |-> TRUE]]

StartGame ==
    \E rc \in ReqCodes :
        LET code == upper(rc) IN
        /\ IF code \notin DOMAIN games
           THEN UNCHANGED games
           ELSE games' = [games EXCEPT ![code] = start_game(@, time_now).game]
        /\ UNCHANGED <<ticks, rounds, pc, local>>

(* get_lobby_state, app.py:304-318 *)
get_lobby_state(game) ==
    [game |-> game,
     resp |-> [success |-> TRUE, players |-> game.players, started |-> game.started]]

GetLobbyState ==
    \E rc \in ReqCodes :
        LET code == upper(rc) IN
        /\ IF code \notin DOMAIN games
           THEN UNCHANGED games
           ELSE games' = [games EXCEPT ![code] = get_lobby_state(@).game]
        /\ UNCHANGED <<ticks, rounds, pc, local>>

-----------------------------------------------------------------------------
(* make_guess, app.py:320-425 *)

(* Mutant: any player of the roster may guess *)
IsPlayersTurn_AnyMember(game, player_id) == player_id \in DOMAIN game.players

IsPlayersTurn(game, player_id) == game.current_player = player_id

guessed_words(game) == {game.guesses[i].word : i \in 1..Len(game.guesses)}

(* Mutant: only the submitter's own guesses count as already tried *)
AlreadyGuessed_OwnOnly(game, word) ==
    \E i \in 1..Len(game.guesses) :
        /\ game.guesses[i].word = word
        /\ game.guesses[i].player_id = game.current_player

AlreadyGuessed(game, word) == word \in guessed_words(game)

RECURSIVE SeqMin(_)
SeqMin(s) == IF Len(s) = 1 THEN s[1] ELSE Min2(Head(s), SeqMin(Tail(s)))

IsNewBest(game, rank) ==
    /\ game.guesses # <<>>
    /\ rank < SeqMin([i \in 1..Len(game.guesses) |-> game.guesses[i].rank])

GuessData(game, player_id, word, rank) ==
    LET is_new_best == IsNewBest(game, rank)
        base == calculate_points(rank, get_avg_top_10(game))
    IN  [ word |-> word,
          rank |-> rank,
          points |-> IF is_new_best THEN base + BEST_WORD_BONUS ELSE base,
          indicator |-> get_indicator(rank),
          player_id |-> player_id,
          player_name |-> game.players[player_id],
          is_new_best |-> is_new_best ]

(* Mutant: the round is won when the guess earns the top tier's 100 points *)
ApplyGuess_ByPoints(game, guess_data, t) ==
    LET player_id == guess_data.player_id
        g1 == [game EXCEPT
                  !.guesses = Append(@, guess_data),
                  !.scores[player_id] = @ + guess_data.points,
                  !.consecutive_timeouts[player_id] = 0]
    IN  IF guess_data.points = 100
        THEN [g1 EXCEPT !.found = TRUE, !.winner = Some(player_id)]
        ELSE [g1 EXCEPT !.current_player = NextPlayer(game, player_id),
                        !.turn_start_time = t]

(* app.py:388-415: log the guess, score it, end the round or pass the turn *)
ApplyGuess(game, guess_data, t) ==
    LET player_id == guess_data.player_id
        g1 == [game EXCEPT
                  !.guesses = Append(@, guess_data),
                  !.scores[player_id] = @ + guess_data.points,
                  !.consecutive_timeouts[player_id] = 0]
    IN  IF guess_data.rank = 1
        THEN [g1 EXCEPT !.found = TRUE, !.winner = Some(player_id)]
        ELSE [g1 EXCEPT !.current_player = NextPlayer(game, player_id),
                        !.turn_start_time = t]

GuessResponse(game, guess_data) ==
    [ success |-> TRUE,
      word |-> guess_data.word,
      rank |-> guess_data.rank,
      points |-> guess_data.points,
      indicator |-> guess_data.indicator,
      found |-> guess_data.rank = 1,
      secret_word |-> IF guess_data.rank = 1 THEN Some(game.secret_word) ELSE None ]

RoundTimeoutResponse(game) ==
    [ success |-> FALSE,
      error |-> "Temps ecoule pour ce mot !",
      timeout |-> TRUE,
      secret_word |-> Some(game.secret_word) ]

(* Mutant: a rejected guess still passes the turn *)
RejectGuess_PassTurn(game, msg, skipped) ==
    [game |-> [game EXCEPT !.current_player = NextPlayer(game, @)],
     resp |-> Error(msg), skipped |-> skipped]

(* The early returns of make_guess, app.py:344, 350, 356, 361, 366, 371 *)
RejectGuess(game, msg, skipped) ==
    [game |-> game, resp |-> Error(msg), skipped |-> skipped]

(* The game after the request, the response, and whether the lazy turn   *)
(* check of this request applied a timeout transition.                   *)
make_guess(game, player_id, raw, t) ==
    IF check_round_timeout(game, t)
    THEN [game |-> [game EXCEPT !.round_timeout = TRUE],
          resp |-> RoundTimeoutResponse(game), skipped |-> FALSE]
    ELSE IF game.found
    THEN RejectGuess(game, "Partie terminee", FALSE)
    ELSE
    LET adv == check_and_advance_turn(game, t)
        g1 == adv.game
        word == normalize_text(raw)
        Reject(msg) == RejectGuess(g1, msg, adv.skipped)
    IN  IF ~IsPlayersTurn(g1, player_id) THEN Reject("Ce n'est pas votre tour")
        ELSE IF word = <<>> THEN Reject("Mot vide")
        ELSE IF AlreadyGuessed(g1, word) THEN Reject("Mot deja essaye")
        ELSE IF g1.secret_word \notin DOMAIN RANKS THEN Reject("Erreur de configuration")
        ELSE IF word \notin DOMAIN RANKS[g1.secret_word]
        THEN Reject("Mot non reconnu (pas dans le dictionnaire)")
        ELSE LET guess_data == GuessData(g1, player_id, word, RANKS[g1.secret_word][word])
                 g2 == ApplyGuess(g1, guess_data, t)
             IN  [game |-> g2, resp |-> GuessResponse(g2, guess_data),
                  skipped |-> adv.skipped]

MakeGuess ==
    \E rc \in ReqCodes :
        LET code == upper(rc) IN
        /\ IF code \notin DOMAIN games
           THEN UNCHANGED games
           ELSE \E player_id \in PlayerIds(games[code]), raw \in RawWords :
                games' = [games EXCEPT
                    ![code] = make_guess(@, player_id, raw, time_now).game]
        /\ UNCHANGED <<ticks, rounds, pc, local>>

-----------------------------------------------------------------------------
(* skip_turn, app.py:427-444 *)
skip_turn(game) ==
    [game |-> game,
     resp |-> IF game.found THEN Error("Partie terminee")
              ELSE [success |-> TRUE, current_player |-> game.current_player]]

SkipTurn ==
    \E rc \in ReqCodes :
        LET code == upper(rc) IN
        /\ IF code \notin DOMAIN games
           THEN UNCHANGED games
           ELSE games' = [games EXCEPT ![code] = skip_turn(@).game]
        /\ UNCHANGED <<ticks, rounds, pc, local>>

-----------------------------------------------------------------------------
(* get_state, app.py:446-488 *)

Snapshot(game, round_timeout, turn_skipped, t) ==
    LET current_turn_limit == get_current_turn_limit(game)
        game_ended == game.found \/ round_timeout
    IN  [ success |-> TRUE,
          players |-> game.players,
          scores |-> game.scores,
          guesses |-> SortedByRank(game.guesses),
          current_player |-> game.current_player,
          found |-> game.found,
          winner |-> game.winner,
          secret_word |-> IF game_ended THEN Some(game.secret_word) ELSE None,
          top_20_words |-> IF game_ended THEN Some(get_top_20_words(game.secret_word)) ELSE None,
          round_remaining |-> get_remaining_round_time(game, t),
          turn_remaining |-> get_remaining_turn_time(game, t),
          turn_limit |-> current_turn_limit,
          is_reduced_timer |-> current_turn_limit < TURN_TIME_LIMIT,
          round_timeout |-> round_timeout,
          turn_skipped |-> turn_skipped,
          avg_top_10 |-> get_avg_top_10(game) ]

get_state(game, t) ==
    LET round_timeout == check_round_timeout(game, t)
        adv == check_and_advance_turn(game, t)
    IN  [game |-> adv.game,
         resp |-> Snapshot(adv.game, round_timeout, adv.skipped, t),
         skipped |-> adv.skipped]

GetState ==
    \E rc \in ReqCodes :
        LET code == upper(rc) IN
        /\ IF code \notin DOMAIN games
           THEN UNCHANGED games
           ELSE games' = [games EXCEPT ![code] = get_state(@, time_now).game]
        /\ UNCHANGED <<ticks, rounds, pc, local>>

-----------------------------------------------------------------------------
(* new_round, app.py:490-521 *)

(* Mutant: the new round starts from scores of 0 *)
new_round_ResetScores(game, secret_word, t) ==
    [game |-> RestartForFairness(game, secret_word, t),
     resp |-> [success |-> TRUE,
               round_time_limit |-> ROUND_TIME_LIMIT,
               turn_time_limit |-> TURN_TIME_LIMIT]]

new_round(game, secret_word, t) ==
    [game |-> [game EXCEPT
                  !.secret_word = secret_word,
                  !.guesses = <<>>,
                  !.current_player = 1,
                  !.found = FALSE,
                  !.winner = None,
                  !.round_start_time = t,
                  !.turn_start_time = t,
                  !.round_timeout = FALSE,
                  !.turn_skipped = FALSE,
                  !.consecutive_timeouts = [pid \in DOMAIN game.players |-> 0]],
     resp |-> [success |-> TRUE,
               round_time_limit |-> ROUND_TIME_LIMIT,
               turn_time_limit |-> TURN_TIME_LIMIT]]

NewRound ==
    \E rc \in ReqCodes, secret_word \in TARGETS :
        LET code == upper(rc) IN
        /\ IF code \notin DOMAIN games
           THEN UNCHANGED <<games, rounds>>
           ELSE /\ rounds < MaxRounds
                /\ rounds' = rounds + 1
                /\ games' = [games EXCEPT
                       ![code] = new_round(@, secret_word, time_now).game]
        /\ UNCHANGED <<ticks, pc, local>>

-----------------------------------------------------------------------------
(* The wall clock: d ticks pass *)
Elapse(game, d) ==
    [game EXCEPT
        !.round_start_time = Max2(@ - d, time_now - Secs(ROUND_TIME_LIMIT)),
        !.turn_start_time = Max2(@ - d, time_now - Secs(TURN_TIME_LIMIT))]

Tick ==
    \E d \in Deltas :
        /\ games # <<>>
        /\ ticks < MaxTicks
        /\ ticks' = ticks + 1
        /\ games' = [code \in DOMAIN games |-> Elapse(games[code], d)]
        /\ UNCHANGED <<rounds, pc, local>>

-----------------------------------------------------------------------------
(* Requests handled one at a time *)

Init ==
    /\ games = <<>>
    /\ ticks = 0
    /\ rounds = 0
    /\ pc = Idle
    /\ local = NoLocals

Next ==
    \/ CreateGame
    \/ JoinGame
    \/ StartGame
    \/ GetLobbyState
    \/ MakeGuess
    \/ SkipTurn
    \/ GetState
    \/ NewRound
    \/ Tick

Spec == Init /\ [][Next]_vars

-----------------------------------------------------------------------------
(* The room under study *)

Created == RoomCode \in DOMAIN games
G == games[RoomCode]
Roster(game) == DOMAIN game.players

RoundElapsed(game) == time_now - game.round_start_time
TurnElapsed(game) == time_now - game.turn_start_time

(* The current player as it stands once the lazy turn check has run *)
CurrentAfterCheck(game) ==
    IF get_remaining_turn_time(game, time_now) <= 0 /\ ~game.found
    THEN (game.current_player % Len(game.players)) + 1
    ELSE game.current_player

NotYourTurn == "Ce n'est pas votre tour"

-----------------------------------------------------------------------------
-----------------------------------------------------------------------------
(* C2: in every reachable state the guess log of the current round holds   *)
(* no two records with the same normalized word.                           *)
C2_NoDuplicateWords ==
    Created =>
        \A i, j \in 1..Len(G.guesses) :
            i # j => G.guesses[i].word # G.guesses[j].word

(* A second round whose log holds two words, after a first round *)
C2_Witness ==
    /\ Created
    /\ rounds = 1
    /\ Len(G.guesses) = 2
    /\ G.guesses[1].word = Sea

-----------------------------------------------------------------------------
(* C3: found is true exactly when the log of the current round holds a     *)
(* guess of rank 1; there is at most one such guess; when found, the       *)
(* winner is the player who submitted it; and found goes from false to     *)
(* true only by appending that guess, and back to false only when a new    *)
(* round begins with an empty log.                                         *)
RankOneGuesses(game) == {i \in 1..Len(game.guesses) : game.guesses[i].rank = 1}

C3_FoundState ==
    Created =>
        /\ G.found <=> RankOneGuesses(G) # {}
        /\ Cardinality(RankOneGuesses(G)) <= 1
        /\ G.found => \E i \in RankOneGuesses(G) :
                          G.winner = Some(G.guesses[i].player_id)
        /\ ~G.found => G.winner = None

C3_FoundStep ==
    (Created /\ Created') =>
        /\ (~G.found /\ G'.found) =>
              /\ Len(G'.guesses) = Len(G.guesses) + 1
              /\ SubSeq(G'.guesses, 1, Len(G.guesses)) = G.guesses
              /\ G'.guesses[Len(G'.guesses)].rank = 1
        /\ (G.found /\ G'.found) => G'.guesses = G.guesses
        /\ (G.found /\ ~G'.found) => G'.guesses = <<>>

C3_FoundIffRankOne == [](C3_FoundState) /\ [][C3_FoundStep]_vars

(* Player 2 found the word after player 1's guess *)
C3_Witness ==
    /\ Created
    /\ G.found
    /\ G.winner = Some(2)
    /\ Len(G.guesses) = 2
    /\ G.guesses[2].rank = 1

-----------------------------------------------------------------------------
(* C4: whenever a turn-timeout transition is applied, on get-state or on   *)
(* submit-guess, the current player moves forward by exactly one roster    *)
(* slot, exactly the timeout penalty is added to the score of the player   *)
(* who was current, that player's consecutive-timeout counter grows by     *)
(* exactly 1, and no other player's score or counter changes.              *)
TimeoutEffect(before, after) ==
    LET current == before.current_player
    IN  /\ after.current_player = (current % Len(before.players)) + 1
        /\ after.scores[current] = before.scores[current] + TIMEOUT_PENALTY
        /\ after.consecutive_timeouts[current] = before.consecutive_timeouts[current] + 1
        /\ \A q \in Roster(before) \ {current} :
              /\ after.scores[q] = before.scores[q]
              /\ after.consecutive_timeouts[q] = before.consecutive_timeouts[q]

(* The same transition followed, in the same request, by the accepted     *)
(* guess of the player the turn passed to.                                 *)
TimeoutThenGuess(before, after, player_id, points) ==
    LET current == before.current_player
        Penalty(q) == IF q = current THEN TIMEOUT_PENALTY ELSE 0
        Points(q) == IF q = player_id THEN points ELSE 0
    IN  /\ player_id = (current % Len(before.players)) + 1
        /\ \A q \in Roster(before) :
              /\ after.scores[q] = before.scores[q] + Penalty(q) + Points(q)
              /\ after.consecutive_timeouts[q] =
                    IF q = player_id THEN 0
                    ELSE IF q = current THEN before.consecutive_timeouts[q] + 1
                    ELSE before.consecutive_timeouts[q]

C4_TimeoutAdvancesOneSlot ==
    Created =>
        /\ LET r == get_state(G, time_now)
           IN  r.skipped => TimeoutEffect(G, r.game)
        /\ \A player_id \in PlayerIds(G), raw \in RawWords :
              LET r == make_guess(G, player_id, raw, time_now)
              IN  r.skipped =>
                     IF r.resp.success
                     THEN TimeoutThenGuess(G, r.game, player_id, r.resp.points)
                     ELSE TimeoutEffect(G, r.game)

(* In a room of three, some twenty turn budgets passed in one go and the   *)
(* transition was applied: one penalty, one slot.                          *)
C4_Witness ==
    /\ Created
    /\ ticks = 1
    /\ RoundElapsed(G) >= Secs(ROUND_TIME_LIMIT) - 1
    /\ Len(G.players) = 3
    /\ G.scores = <<TIMEOUT_PENALTY, 0, 0>>
    /\ G.consecutive_timeouts = <<1, 0, 0>>
    /\ G.current_player = 2

-----------------------------------------------------------------------------
(* C5: two get-state calls on the same room with no time elapsed and no    *)
(* other operation in between return identical snapshots, and the second   *)
(* call applies no timeout transition.                                     *)
C5_GetStateIdempotent ==
    Created =>
        LET first == get_state(G, time_now)
            second == get_state(first.game, time_now)
        IN  /\ second.resp = first.resp
            /\ ~second.skipped

-----------------------------------------------------------------------------
(* C6: once a get-state snapshot of a round shows the secret word and the  *)
(* nearest-neighbour list because the round's elapsed time reached the     *)
(* round budget without a find, the get-state snapshot still shows them    *)
(* after any operation that does not begin a new round.                    *)
ShowsSecret(resp) ==
    \/ "secret_word" \in DOMAIN resp /\ resp.secret_word # None
    \/ "top_20_words" \in DOMAIN resp /\ resp.top_20_words # None

RevealedByRoundTimeout(game) ==
    /\ ~game.found
    /\ RoundElapsed(game) >= Secs(ROUND_TIME_LIMIT)
    /\ ShowsSecret(get_state(game, time_now).resp)

(* A step that begins a new round: new_round, or a join that restarts *)
BeginsNewRound ==
    \/ rounds' # rounds
    \/ G.started /\ Len(G'.players) > Len(G.players)

C6_RevealStep ==
    (Created /\ Created' /\ RevealedByRoundTimeout(G) /\ ~BeginsNewRound)
        => ShowsSecret(get_state(G', time_now).resp)

C6_RevealPersists == [][C6_RevealStep]_vars

-----------------------------------------------------------------------------
(* C7: no response of any operation contains the current round's secret    *)
(* word unless the round is found or its time budget has elapsed at the    *)
(* moment of the response.                                                 *)
RoundEnded(game) == game.found \/ RoundElapsed(game) >= Secs(ROUND_TIME_LIMIT)

QuietWhileRunning(r) == ShowsSecret(r.resp) => RoundEnded(r.game)

Responses(game) ==
    {get_state(game, time_now), get_lobby_state(game), skip_turn(game),
     start_game(game, time_now)}
    \cup {make_guess(game, player_id, raw, time_now) :
            player_id \in PlayerIds(game), raw \in RawWords}
    \cup {join_game(game, RoomCode, player_name, secret_word, time_now) :
            player_name \in Names, secret_word \in TARGETS}
    \cup {new_round(game, secret_word, time_now) : secret_word \in TARGETS}

C7_SecretOnlyWhenRoundEnded ==
    Created => \A r \in Responses(G) : QuietWhileRunning(r)

-----------------------------------------------------------------------------
(* C8: a rejected submit-guess leaves scores, guess log, current player,   *)
(* turn start time, consecutive-timeout counters, found and winner         *)
(* unchanged.                                                              *)
GuessFrame(game) ==
    <<game.scores, game.guesses, game.current_player, game.turn_start_time,
      game.consecutive_timeouts, game.found, game.winner>>

C8_RejectedGuessChangesNothing ==
    Created =>
        \A player_id \in PlayerIds(G), raw \in RawWords :
            LET r == make_guess(G, player_id, raw, time_now)
            IN  ~r.resp.success => GuessFrame(r.game) = GuessFrame(G)

(* C8 as amended: a rejected submit-guess leaves those fields unchanged,   *)
(* except that a rejection that comes after the lazy turn check (not your  *)
(* turn, empty guess, already guessed, unknown word, configuration error)  *)
(* on an expired turn leaves the effects of exactly one timeout            *)
(* transition; the roundTimeout flag changes only by being set on a        *)
(* detected round timeout.                                                 *)
AfterTurnCheckErrors ==
    { NotYourTurn, "Mot vide", "Mot deja essaye", "Erreur de configuration",
      "Mot non reconnu (pas dans le dictionnaire)" }

C8_RejectedGuessOnlyTimesOut ==
    Created =>
        \A player_id \in PlayerIds(G), raw \in RawWords :
            LET r == make_guess(G, player_id, raw, time_now)
            IN  ~r.resp.success =>
                   /\ \/ GuessFrame(r.game) = GuessFrame(G)
                      \/ /\ r.resp.error \in AfterTurnCheckErrors
                         /\ get_remaining_turn_time(G, time_now) <= 0
                         /\ TimeoutEffect(G, r.game)
                         /\ r.game.turn_start_time = time_now
                         /\ r.game.guesses = G.guesses
                         /\ r.game.found = G.found
                         /\ r.game.winner = G.winner
                   /\ r.game.round_timeout # G.round_timeout =>
                         r.game.round_timeout /\ check_round_timeout(G, time_now)
                   /\ r.game.players = G.players
                   /\ r.game.secret_word = G.secret_word
                   /\ r.game.started = G.started
                   /\ r.game.round_start_time = G.round_start_time

(* In a room of two the turn has expired, and the guess of a word that    *)
(* is already in the log is rejected after the lazy check has applied the  *)
(* timeout transition.                                                     *)
C8_Witness ==
    /\ Created
    /\ Len(G.players) = 2
    /\ G.guesses # <<>>
    /\ \E player_id \in PlayerIds(G), raw \in RawWords :
          \E r \in {make_guess(G, player_id, raw, time_now)} :
              /\ ~r.resp.success
              /\ r.resp.error = "Mot deja essaye"
              /\ r.skipped
              /\ TimeoutEffect(G, r.game)
              /\ GuessFrame(r.game) # GuessFrame(G)

-----------------------------------------------------------------------------
(* Requests handled concurrently by the worker threads of the server.      *)
(* The handlers take no lock (app.py:320-425, 446-488): a thread runs one   *)
(* statement at a time, a read-modify-write of a shared entry is a read    *)
(* step and a write step, and any other thread may run in between.         *)

ConcWords == {<<"s", "e", "a">>, <<" ", "S", "E_acute", "a", " ">>, <<"o", "c", "e", "a", "n">>}

(* A started room of two players, as create, join and start leave it *)
ConcGame ==
    start_game(join_game(NewGame(Ocean, "Joueur", time_now), RoomCode, "Joueur",
                         Ocean, time_now).game, time_now).game

ConcInit ==
    /\ games = (RoomCode :> ConcGame)
    /\ ticks = 0
    /\ rounds = 0
    /\ pc = Idle
    /\ local = NoLocals

SetGame(game) == games' = [games EXCEPT ![RoomCode] = game]
Goto(th, label) == pc' = [pc EXCEPT ![th] = label]
Return(th) == pc' = [pc EXCEPT ![th] = "idle"] /\ local' = [local EXCEPT ![th] = NoLocal]
AfterTurnCheck(th) == IF local[th].op = "state" THEN "gs_snapshot" ELSE "mg_validate"

(* app.py:446-454 *)
BeginGetState(th) ==
    /\ pc[th] = "idle"
    /\ Goto(th, "gs_round")
    /\ local' = [local EXCEPT ![th] = [NoLocal EXCEPT !.op = "state"]]
    /\ UNCHANGED <<games, ticks, rounds>>

(* app.py:320-331 *)
BeginMakeGuess(th) ==
    \E player_id \in Roster(G), raw \in ConcWords :
        /\ pc[th] = "idle"
        /\ Goto(th, "mg_round")
        /\ local' = [local EXCEPT ![th] =
                        [NoLocal EXCEPT !.op = "guess", !.player_id = player_id,
                                        !.word = raw]]
        /\ UNCHANGED <<games, ticks, rounds>>

(* app.py:457 *)
GsRoundCheck(th) ==
    /\ pc[th] = "gs_round"
    /\ local' = [local EXCEPT ![th].round_timeout = check_round_timeout(G, time_now)]
    /\ Goto(th, "cat_check")
    /\ UNCHANGED <<games, ticks, rounds>>

(* app.py:333-344 *)
MgRoundCheck(th) ==
    /\ pc[th] = "mg_round"
    /\ IF check_round_timeout(G, time_now)
       THEN SetGame([G EXCEPT !.round_timeout = TRUE]) /\ Return(th)
       ELSE IF G.found
       THEN UNCHANGED games /\ Return(th)
       ELSE UNCHANGED <<games, local>> /\ Goto(th, "cat_check")
    /\ UNCHANGED <<ticks, rounds>>

(* app.py:156, the condition of check_and_advance_turn *)
CatCheck(th) ==
    /\ pc[th] = "cat_check"
    /\ IF TurnTimeoutDue(G, time_now)
       THEN Goto(th, "cat_lock") /\ UNCHANGED local
       ELSE /\ local' = [local EXCEPT ![th].skipped = FALSE]
            /\ Goto(th, AfterTurnCheck(th))
    /\ UNCHANGED <<games, ticks, rounds>>

(* app.py:158-161 *)
CatLock(th) ==
    /\ pc[th] = "cat_lock"
    /\ SetGame([G EXCEPT !.advancing_turn = TRUE])
    /\ local' = [local EXCEPT ![th].current = G.current_player]
    /\ Goto(th, "cat_score_read")
    /\ UNCHANGED <<ticks, rounds>>

(* app.py:162, the right-hand side *)
CatScoreRead(th) ==
    /\ pc[th] = "cat_score_read"
    /\ local' = [local EXCEPT ![th].tmp = G.scores[local[th].current]]
    /\ Goto(th, "cat_score_write")
    /\ UNCHANGED <<games, ticks, rounds>>

(* app.py:162-168 *)
CatScoreWrite(th) ==
    /\ pc[th] = "cat_score_write"
    /\ SetGame([G EXCEPT
                   !.scores[local[th].current] = local[th].tmp + TIMEOUT_PENALTY,
                   !.consecutive_timeouts[local[th].current] = @ + 1])
    /\ Goto(th, "cat_turn_read")
    /\ UNCHANGED <<local, ticks, rounds>>

(* app.py:171-172, the right-hand side *)
CatTurnRead(th) ==
    /\ pc[th] = "cat_turn_read"
    /\ local' = [local EXCEPT ![th].tmp = NextPlayer(G, G.current_player)]
    /\ Goto(th, "cat_turn_write")
    /\ UNCHANGED <<games, ticks, rounds>>

(* app.py:172-178 *)
CatTurnWrite(th) ==
    /\ pc[th] = "cat_turn_write"
    /\ SetGame([G EXCEPT
                   !.current_player = local[th].tmp,
                   !.turn_start_time = time_now,
                   !.turn_skipped = TRUE,
                   !.advancing_turn = FALSE])
    /\ local' = [local EXCEPT ![th].skipped = TRUE]
    /\ Goto(th, AfterTurnCheck(th))
    /\ UNCHANGED <<ticks, rounds>>

(* app.py:460-488 *)
GsSnapshot(th) ==
    /\ pc[th] = "gs_snapshot"
    /\ Snapshot(G, local[th].round_timeout, local[th].skipped, time_now).success
    /\ Return(th)
    /\ UNCHANGED <<games, ticks, rounds>>

(* app.py:349-386: the turn check, the validation and the scoring *)
GuessAdmitted(game, player_id, word) ==
    /\ IsPlayersTurn(game, player_id)
    /\ word # <<>>
    /\ ~AlreadyGuessed(game, word)
    /\ game.secret_word \in DOMAIN RANKS
    /\ word \in DOMAIN RANKS[game.secret_word]

MgValidate(th) ==
    /\ pc[th] = "mg_validate"
    /\ LET player_id == local[th].player_id
           word == normalize_text(local[th].word)
       IN  IF GuessAdmitted(G, player_id, word)
           THEN /\ local' = [local EXCEPT ![th].guess_data =
                                Some(GuessData(G, player_id, word,
                                               RANKS[G.secret_word][word]))]
                /\ Goto(th, "mg_append")
           ELSE Return(th)
    /\ UNCHANGED <<games, ticks, rounds>>

(* app.py:398 *)
MgAppend(th) ==
    /\ pc[th] = "mg_append"
    /\ SetGame([G EXCEPT !.guesses = Append(@, local[th].guess_data[1])])
    /\ Goto(th, "mg_score_read")
    /\ UNCHANGED <<local, ticks, rounds>>

(* app.py:399, the right-hand side *)
MgScoreRead(th) ==
    /\ pc[th] = "mg_score_read"
    /\ local' = [local EXCEPT ![th].tmp = G.scores[local[th].player_id]]
    /\ Goto(th, "mg_score_write")
    /\ UNCHANGED <<games, ticks, rounds>>

(* app.py:399-404 *)
MgScoreWrite(th) ==
    /\ pc[th] = "mg_score_write"
    /\ SetGame([G EXCEPT
                   !.scores[local[th].player_id] =
                       local[th].tmp + local[th].guess_data[1].points,
                   !.consecutive_timeouts[local[th].player_id] = 0])
    /\ Goto(th, "mg_finish")
    /\ UNCHANGED <<local, ticks, rounds>>

(* app.py:406-425 *)
MgFinish(th) ==
    /\ pc[th] = "mg_finish"
    /\ IF local[th].guess_data[1].rank = 1
       THEN SetGame([G EXCEPT !.found = TRUE, !.winner = Some(local[th].player_id)])
       ELSE SetGame([G EXCEPT
                        !.current_player = NextPlayer(G, local[th].player_id),
                        !.turn_start_time = time_now])
    /\ Return(th)
    /\ UNCHANGED <<ticks, rounds>>

ConcTick == Tick

ConcNext ==
    \/ ConcTick
    \/ \E th \in Threads :
          \/ BeginGetState(th)
          \/ BeginMakeGuess(th)
          \/ GsRoundCheck(th)
          \/ MgRoundCheck(th)
          \/ CatCheck(th)
          \/ CatLock(th)
          \/ CatScoreRead(th)
          \/ CatScoreWrite(th)
          \/ CatTurnRead(th)
          \/ CatTurnWrite(th)
          \/ GsSnapshot(th)
          \/ MgValidate(th)
          \/ MgAppend(th)
          \/ MgScoreRead(th)
          \/ MgScoreWrite(th)
          \/ MgFinish(th)

SpecConc == ConcInit /\ [][ConcNext]_vars

-----------------------------------------------------------------------------
(* Claims about requests that interleave                                    *)

AllIdle == \A th \in Threads : pc[th] = "idle"

RECURSIVE PointsOf(_, _)
PointsOf(guesses, p) ==
    IF guesses = <<>> THEN 0
    ELSE (IF Head(guesses).player_id = p THEN Head(guesses).points ELSE 0)
         + PointsOf(Tail(guesses), p)

(* C9: two submit-guess requests racing for one room have the effects of   *)
(* some serial order.  While no turn can expire (no time has passed) a      *)
(* serial order of guesses in a room of two never logs a normalized word    *)
(* twice, never admits two guesses against one value of the current player  *)
(* (the log alternates between the two players), and loses no score update  *)
(* (a player's score is the sum of the points of that player's entries).    *)
C9_ConcurrentGuessesSerializable ==
    (AllIdle /\ ticks = 0) =>
        /\ \A i, j \in 1..Len(G.guesses) :
              i # j => G.guesses[i].word # G.guesses[j].word
        /\ \A i \in 1..(Len(G.guesses) - 1) :
              G.guesses[i].player_id # G.guesses[i + 1].player_id
        /\ \A p \in Roster(G) : G.scores[p] = PointsOf(G.guesses, p)

(* C10: two requests that both observe one expired turn apply the timeout   *)
(* transition at most once.  After a single passage of time and before any  *)
(* guess is logged, the room is either as it started or one transition      *)
(* away from it: one penalty, one counter step, one slot.                   *)
C10_TimeoutAppliedAtMostOnce ==
    (AllIdle /\ ticks <= 1 /\ G.guesses = <<>>) =>
        \/ /\ G.current_player = ConcGame.current_player
           /\ G.scores = ConcGame.scores
           /\ G.consecutive_timeouts = ConcGame.consecutive_timeouts
        \/ TimeoutEffect(ConcGame, G)

-----------------------------------------------------------------------------
(* Claims about joining, rounds, rotation and the timers                    *)

JoinResults(game) ==
    {join_game(game, RoomCode, player_name, secret_word, time_now) :
        player_name \in Names, secret_word \in TARGETS}

(* C11: when a new player joins a room whose game has started, then after  *)
(* the join every score and every consecutive-timeout counter is 0, the    *)
(* guess log is empty, found is false, winner is none, roundTimeout is     *)
(* false and the round and turn clocks read now; when the room has not     *)
(* started, the join leaves the scores and counters of the existing        *)
(* players, the guess log, the flags, the turn and the clocks as they were.*)
C11_JoinRestartsStartedRoom ==
    Created =>
        \A r \in JoinResults(G) :
            r.resp.success =>
                /\ Len(r.game.players) = Len(G.players) + 1
                /\ r.resp.game_restarted = G.started
                /\ G.started =>
                      /\ \A p \in Roster(r.game) :
                            /\ r.game.scores[p] = 0
                            /\ r.game.consecutive_timeouts[p] = 0
                      /\ r.game.guesses = <<>>
                      /\ ~r.game.found
                      /\ r.game.winner = None
                      /\ ~r.game.round_timeout
                      /\ r.game.round_start_time = time_now
                      /\ r.game.turn_start_time = time_now
                /\ ~G.started =>
                      /\ \A p \in Roster(G) :
                            /\ r.game.scores[p] = G.scores[p]
                            /\ r.game.consecutive_timeouts[p] = G.consecutive_timeouts[p]
                            /\ r.game.players[p] = G.players[p]
                      /\ r.game.guesses = G.guesses
                      /\ r.game.found = G.found
                      /\ r.game.winner = G.winner
                      /\ r.game.round_timeout = G.round_timeout
                      /\ r.game.current_player = G.current_player
                      /\ r.game.round_start_time = G.round_start_time
                      /\ r.game.turn_start_time = G.turn_start_time
                      /\ r.game.secret_word = G.secret_word

(* A started room with a logged guess, a score and an old clock, in which  *)
(* a join succeeds and restarts the round.                                 *)
C11_Witness ==
    /\ Created
    /\ G.started
    /\ G.guesses # <<>>
    /\ \E p \in Roster(G) : G.scores[p] # 0
    /\ RoundElapsed(G) > 0
    /\ \E r \in JoinResults(G) :
          /\ r.resp.success
          /\ r.resp.game_restarted
          /\ r.game.guesses = <<>>
          /\ \A p \in Roster(r.game) : r.game.scores[p] = 0

-----------------------------------------------------------------------------
(* C12: a join request that carries an existingPlayerId matching a roster  *)
(* entry returns that same player identifier, does not grow the roster,    *)
(* creates no score or counter entry and triggers no fairness restart.     *)
C12_ReconnectionKeepsIdentity ==
    Created =>
        \A data \in JoinRequests, secret_word \in TARGETS :
            \A p \in Roster(G) :
                data.existingPlayerId = Some(p) =>
                    \A r \in {join_request(G, data, secret_word, time_now)} :
                        /\ r.resp.success => r.resp.player_id = p
                        /\ r.game.players = G.players
                        /\ r.game.scores = G.scores
                        /\ r.game.consecutive_timeouts = G.consecutive_timeouts
                        /\ r.game.guesses = G.guesses
                        /\ r.game.round_start_time = G.round_start_time

-----------------------------------------------------------------------------
(* The scoring scenario: a started room of one player whose secret has the *)
(* rank table ocean 1, sea 2, water 50, rock 9000; the player submits      *)
(* words of that table, queries the state, and time passes.                *)

ScenarioWords ==
    { <<"s", "e", "a">>, <<"w", "a", "t", "e", "r">>, <<"r", "o", "c", "k">>,
      <<"o", "c", "e", "a", "n">> }

ScenarioGame == start_game(NewGame(Ocean, "Joueur", time_now), time_now).game

ScenarioInit ==
    /\ games = (RoomCode :> ScenarioGame)
    /\ ticks = 0
    /\ rounds = 0
    /\ pc = Idle
    /\ local = NoLocals

ScenarioGuess ==
    \E player_id \in PlayerIds(G), raw \in ScenarioWords :
        /\ games' = [games EXCEPT
                        ![RoomCode] = make_guess(@, player_id, raw, time_now).game]
        /\ UNCHANGED <<ticks, rounds, pc, local>>

ScenarioNext ==
    \/ ScenarioGuess
    \/ GetState
    \/ Tick

SpecScenario == ScenarioInit /\ [][ScenarioNext]_vars

LoggedWords(game) == [i \in 1..Len(game.guesses) |-> game.guesses[i].word]
ScenarioOrder == <<Sea, Water, Rock, Ocean>>
InScenario ==
    /\ Len(G.guesses) <= Len(ScenarioOrder)
    /\ LoggedWords(G) = SubSeq(ScenarioOrder, 1, Len(G.guesses))

(* C13: in that room the guesses sea, water, rock, ocean, in that order,   *)
(* give: sea rank 2 with positive points and not found; water rank 50 with *)
(* positive points below those of sea; rock rank 9000 with zero or         *)
(* negative points; ocean rank 1 with found, winner set and the secret     *)
(* revealed.                                                               *)
C13_ScenarioTiers ==
    InScenario =>
        /\ Len(G.guesses) >= 1 =>
              /\ G.guesses[1].rank = 2
              /\ G.guesses[1].points > 0
        /\ Len(G.guesses) >= 2 =>
              /\ G.guesses[2].rank = 50
              /\ G.guesses[2].points > 0
              /\ G.guesses[2].points < G.guesses[1].points
        /\ Len(G.guesses) >= 3 =>
              /\ G.guesses[3].rank = 9000
              /\ G.guesses[3].points <= 0
        /\ Len(G.guesses) = 4 =>
              /\ G.guesses[4].rank = 1
              /\ G.found
              /\ G.winner = Some(1)
              /\ ShowsSecret(get_state(G, time_now).resp)
        /\ Len(G.guesses) < 4 => ~G.found

(* C13 as amended: sea scores the 15 points of its tier; water, whose rank *)
(* 50 is worse than the mean rank 2 of the log, scores the regression      *)
(* penalty -1 and not the 10 points of its tier; rock scores -1 as well;   *)
(* ocean scores 100 plus the best-word bonus, ends the round with the      *)
(* player as winner, and the response and the snapshot show the secret.    *)
C13_ScenarioWithRegressionPenalty ==
    InScenario =>
        /\ Len(G.guesses) >= 1 =>
              /\ G.guesses[1].rank = 2
              /\ G.guesses[1].points = 15
        /\ Len(G.guesses) >= 2 =>
              /\ G.guesses[2].rank = 50
              /\ G.guesses[2].points = REGRESSION_PENALTY
        /\ Len(G.guesses) >= 3 =>
              /\ G.guesses[3].rank = 9000
              /\ G.guesses[3].points = REGRESSION_PENALTY
        /\ Len(G.guesses) = 4 =>
              /\ G.guesses[4].rank = 1
              /\ G.guesses[4].points = 100 + BEST_WORD_BONUS
              /\ G.found
              /\ G.winner = Some(1)
              /\ ShowsSecret(get_state(G, time_now).resp)
        /\ Len(G.guesses) < 4 =>
              /\ ~G.found
              /\ G.winner = None
        /\ Len(G.guesses) = 3 /\ ~check_round_timeout(G, time_now) =>
              \A r \in {make_guess(G, 1, <<"o", "c", "e", "a", "n">>, time_now)} :
                  /\ r.resp.success
                  /\ r.resp.found
                  /\ r.resp.secret_word = Some(Ocean)
        /\ ticks = 0 =>
              G.scores[1] = PointsOf(G.guesses, 1)

(* The four guesses were made within the budgets and the round is won *)
C13_Witness ==
    /\ InScenario
    /\ Len(G.guesses) = 4
    /\ ticks = 0
    /\ G.found
    /\ G.scores[1] = 15 + REGRESSION_PENALTY + REGRESSION_PENALTY + 100 + BEST_WORD_BONUS

-----------------------------------------------------------------------------
(* C14: with a roster of N players every turn advance, by a timeout        *)
(* transition or by an accepted guess that does not win, moves the current *)
(* player from slot p to slot (p mod N) + 1; an accepted winning guess     *)
(* leaves the current player where the lazy check put it; a request that   *)
(* applies no advance leaves it unchanged; and N advances in a row from    *)
(* any slot make every player the current player exactly once.             *)
Slot(n, p) == (p % n) + 1

RECURSIVE Rotation(_, _, _)
Rotation(n, p, k) ==
    IF k = 0 THEN <<>> ELSE <<Slot(n, p)>> \o Rotation(n, Slot(n, p), k - 1)

C14_TurnRotation ==
    Created =>
        LET n == Len(G.players)
            checked == check_and_advance_turn(G, time_now)
        IN  /\ checked.skipped =>
                  checked.game.current_player = Slot(n, G.current_player)
            /\ ~checked.skipped => checked.game.current_player = G.current_player
            /\ \A r \in {get_state(G, time_now)} :
                  r.game.current_player =
                      IF r.skipped THEN Slot(n, G.current_player) ELSE G.current_player
            /\ \A player_id \in PlayerIds(G), raw \in RawWords :
                  \A r \in {make_guess(G, player_id, raw, time_now)} :
                      LET before == IF r.skipped THEN Slot(n, G.current_player)
                                    ELSE G.current_player
                      IN  r.game.current_player =
                              IF r.resp.success /\ ~r.resp.found
                              THEN Slot(n, before)
                              ELSE before
            /\ \A p \in Roster(G) :
                  /\ {Rotation(n, p, n)[k] : k \in 1..n} = Roster(G)
                  /\ Rotation(n, p, n)[n] = p
                  /\ \A k \in 1..n : Rotation(n, p, k)[k] =
                        NextPlayer(G, IF k = 1 THEN p ELSE Rotation(n, p, k - 1)[k - 1])

(* In a room of three the turn of player 1 expired, player 2's guess was   *)
(* accepted, and the turn is on player 3.                                  *)
C14_Witness ==
    /\ Created
    /\ Len(G.players) = 3
    /\ G.scores[1] = TIMEOUT_PENALTY
    /\ Len(G.guesses) = 1
    /\ G.guesses[1].player_id = 2
    /\ G.current_player = 3

-----------------------------------------------------------------------------
(* Turns of a started room of two players: guesses from the rank table,    *)
(* state queries, new rounds, and waits of the reduced or of the    *)
(* default turn budget.                                                    *)

TurnDeltas == {Secs(REDUCED_TURN_TIME), Secs(TURN_TIME_LIMIT)}

TurnWords == {<<"s", "e", "a">>, <<"w", "a", "t", "e", "r">>, <<"o", "c", "e", "a", "n">>}

TurnsGuess ==
    \E player_id \in PlayerIds(G), raw \in TurnWords :
        /\ games' = [games EXCEPT
                        ![RoomCode] = make_guess(@, player_id, raw, time_now).game]
        /\ UNCHANGED <<ticks, rounds, pc, local>>

TurnsTick ==
    \E d \in TurnDeltas :
        /\ ticks < MaxTurnTicks
        /\ ticks' = ticks + 1
        /\ games' = [code \in DOMAIN games |-> Elapse(games[code], d)]
        /\ UNCHANGED <<rounds, pc, local>>

TurnsNext ==
    \/ TurnsGuess
    \/ GetState
    \/ NewRound
    \/ TurnsTick

SpecTurns == ConcInit /\ [][TurnsNext]_vars

(* C15: the turn budget of the current player is the reduced budget (10 s) *)
(* exactly when that player's consecutive-timeout counter is at least 2,   *)
(* and the default budget (15 s) otherwise, and get-state reports it; in   *)
(* every step the counter of a player whose guess is accepted becomes 0,   *)
(* the counter of a player charged a turn timeout grows by 1, which only   *)
(* happens to the current player of an expired turn, every counter is 0    *)
(* after a new round, and no counter changes otherwise.                    *)
C15_BudgetState ==
    /\ get_current_turn_limit(G) =
          IF G.consecutive_timeouts[G.current_player] >= 2 THEN 10 ELSE 15
    /\ \A r \in {get_state(G, time_now)} :
          /\ r.resp.turn_limit =
                IF r.game.consecutive_timeouts[r.game.current_player] >= 2
                THEN 10 ELSE 15
          /\ r.resp.is_reduced_timer = (r.resp.turn_limit = 10)

GuessAcceptedFrom(p) ==
    /\ Len(G'.guesses) = Len(G.guesses) + 1
    /\ G'.guesses[Len(G'.guesses)].player_id = p

C15_CounterStep ==
    IF BeginsNewRound
    THEN \A p \in Roster(G') : G'.consecutive_timeouts[p] = 0
    ELSE \A p \in Roster(G) :
            IF GuessAcceptedFrom(p)
            THEN G'.consecutive_timeouts[p] = 0
            ELSE IF G'.scores[p] # G.scores[p]
            THEN /\ G'.scores[p] = G.scores[p] + TIMEOUT_PENALTY
                 /\ G'.consecutive_timeouts[p] = G.consecutive_timeouts[p] + 1
                 /\ p = G.current_player
                 /\ get_remaining_turn_time(G, time_now) <= 0
            ELSE G'.consecutive_timeouts[p] = G.consecutive_timeouts[p]

C15_ReducedBudgetAfterTwoTimeouts ==
    [](C15_BudgetState) /\ [][C15_CounterStep]_vars

(* In the room of two, player 1's turn expired twice while player 2        *)
(* answered twice: player 1's third turn has the reduced budget.           *)
C15_Witness ==
    /\ Len(G.players) = 2
    /\ G.current_player = 1
    /\ G.consecutive_timeouts = <<2, 0>>
    /\ Len(G.guesses) = 2
    /\ get_current_turn_limit(G) = REDUCED_TURN_TIME

-----------------------------------------------------------------------------
(* C16: new-round leaves the roster, every score and the started flag      *)
(* unchanged; it empties the guess log, clears found, winner and           *)
(* roundTimeout, sets the round and turn clocks to now, puts the turn on   *)
(* the first player and sets every consecutive-timeout counter to 0.       *)
C16_NewRoundKeepsScores ==
    Created =>
        \A secret_word \in TARGETS :
            \A r \in {new_round(G, secret_word, time_now)} :
                /\ r.resp.success
                /\ r.game.players = G.players
                /\ r.game.scores = G.scores
                /\ r.game.started = G.started
                /\ r.game.guesses = <<>>
                /\ ~r.game.found
                /\ r.game.winner = None
                /\ ~r.game.round_timeout
                /\ r.game.round_start_time = time_now
                /\ r.game.turn_start_time = time_now
                /\ r.game.current_player = 1
                /\ \A p \in Roster(G) : r.game.consecutive_timeouts[p] = 0
                /\ DOMAIN r.game.consecutive_timeouts = Roster(G)
                /\ r.game.secret_word = secret_word

(* Player 1's turn expired, player 2 found the word, and a new round has   *)
(* begun with the scores of the first.                                     *)
C16_Witness ==
    /\ Created
    /\ rounds = 1
    /\ G.scores = <<TIMEOUT_PENALTY, 100>>
    /\ G.guesses = <<>>
    /\ ~G.found
    /\ G.winner = None
    /\ G.current_player = 1
    /\ G.consecutive_timeouts = <<0, 0>>

-----------------------------------------------------------------------------
(* C17: in every reachable state the roster holds between 1 and 4 players  *)
(* with the identifiers 1..n, the scores and the consecutive-timeout       *)
(* counters have exactly those keys, and the current player is one of      *)
(* them; every successful join returns the identifier n + 1; a join on a   *)
(* room of 4 is rejected and changes nothing.                              *)
C17_RosterBounded ==
    Created =>
        LET n == Len(G.players)
        IN  /\ n >= 1
            /\ n <= 4
            /\ DOMAIN G.players = 1..n
            /\ DOMAIN G.scores = 1..n
            /\ DOMAIN G.consecutive_timeouts = 1..n
            /\ G.current_player \in 1..n
            /\ \A r \in JoinResults(G) :
                  /\ r.resp.success =>
                        /\ r.resp.player_id = n + 1
                        /\ Len(r.game.players) = n + 1
                        /\ \A p \in 1..n : r.game.players[p] = G.players[p]
                  /\ n = 4 =>
                        /\ ~r.resp.success
                        /\ r.game = G

(* A running room of four, where the next join is refused as full *)
C17_Witness ==
    /\ Created
    /\ Len(G.players) = 4
    /\ ~G.found
    /\ G.current_player = 3
    /\ \E r \in JoinResults(G) :
          /\ ~r.resp.success
          /\ r.resp.error = "Partie complete (4 joueurs max)"

-----------------------------------------------------------------------------
(* C18: while a room has not started, no get-state and no submit-guess     *)
(* applies a turn-timeout transition or reports a round timeout, every     *)
(* score is 0 and the turn is on the first player.                         *)
ReportsRoundTimeout(resp) ==
    \/ "round_timeout" \in DOMAIN resp /\ resp.round_timeout
    \/ "timeout" \in DOMAIN resp /\ resp.timeout

C18_LobbyKeepsTimers ==
    (Created /\ ~G.started) =>
        /\ \A p \in Roster(G) : G.scores[p] = 0
        /\ G.current_player = 1
        /\ \A r \in {get_state(G, time_now)} :
              ~r.skipped /\ ~ReportsRoundTimeout(r.resp)
        /\ \A player_id \in PlayerIds(G), raw \in RawWords :
              \A r \in {make_guess(G, player_id, raw, time_now)} :
                  ~r.skipped /\ ~ReportsRoundTimeout(r.resp)

-----------------------------------------------------------------------------
(* C19: a get-state or submit-guess applies the turn-timeout transition    *)
(* only if the time elapsed since the turn started is at least the current *)
(* player's turn budget and the round is not found, and treats the round   *)
(* as timed out only if the time elapsed since the round started is at     *)
(* least the round budget; one tick before a budget neither happens.       *)
TurnBudgetElapsed(game) ==
    TurnElapsed(game) >= Secs(get_current_turn_limit(game))

RoundBudgetElapsed(game) ==
    RoundElapsed(game) >= Secs(ROUND_TIME_LIMIT)

C19_TimeoutsOnlyAtBudget ==
    Created =>
        /\ \A r \in {get_state(G, time_now)} :
              /\ r.skipped => (TurnBudgetElapsed(G) /\ ~G.found)
              /\ ReportsRoundTimeout(r.resp) => RoundBudgetElapsed(G)
        /\ \A player_id \in PlayerIds(G), raw \in RawWords :
              \A r \in {make_guess(G, player_id, raw, time_now)} :
                  /\ r.skipped => (TurnBudgetElapsed(G) /\ ~G.found)
                  /\ ReportsRoundTimeout(r.resp) => RoundBudgetElapsed(G)
                  /\ r.game.round_timeout /\ ~G.round_timeout => RoundBudgetElapsed(G)

-----------------------------------------------------------------------------
(* C20: once a round has ended, because it was found or because its time   *)
(* budget elapsed without a find, no get-state and no submit-guess changes *)
(* a player's score, a consecutive-timeout counter or the current player.  *)
RoundIsOver(game) ==
    game.found \/ RoundBudgetElapsed(game)

Standing(game) ==
    <<game.scores, game.consecutive_timeouts, game.current_player>>

C20_FoundRoundFrozen ==
    (Created /\ G.found) =>
        /\ Standing(get_state(G, time_now).game) = Standing(G)
        /\ \A player_id \in PlayerIds(G), raw \in RawWords :
              Standing(make_guess(G, player_id, raw, time_now).game) = Standing(G)

C20_GuessAfterRoundEndFrozen ==
    (Created /\ RoundIsOver(G)) =>
        \A player_id \in PlayerIds(G), raw \in RawWords :
            Standing(make_guess(G, player_id, raw, time_now).game) = Standing(G)

C20_EndedRoundFrozen ==
    (Created /\ G.started /\ RoundIsOver(G)) =>
        /\ Standing(get_state(G, time_now).game) = Standing(G)
        /\ \A player_id \in PlayerIds(G), raw \in RawWords :
              Standing(make_guess(G, player_id, raw, time_now).game) = Standing(G)

====
